---- MODULE Spec2Model ----
(***************************************************************************)
(* get-papers-list: PubMed search -> XML detail fetch -> extraction of     *)
(* paper records -> keyword / email classification -> filtered CSV export. *)
(*                                                                         *)
(* A Python str is a sequence of one-character strings.  The value None is *)
(* the one-element sequence <<"None">>, which is no str because "None" is  *)
(* not a character.  An XML child lookup is the sequence of the matching   *)
(* child elements' .text values (<<>>: no such element; lxml gives         *)
(* .text = None for an element without leading text).                      *)
(***************************************************************************)
EXTENDS Integers, Sequences, FiniteSets, TLC

VARIABLES pc, paper_ids, payload, paper_details, idx, detected,
          processed_papers, csvfile, echoed, keepOnlyCompanyAffiliated

vars == <<pc, paper_ids, payload, paper_details, idx, detected,
          processed_papers, csvfile, echoed, keepOnlyCompanyAffiliated>>

\* ---------------------------------------------------------------- bounds
MaxArticles == 2
MaxAuthors == 2
retmax == 5

\* ------------------------------------------------------- Python values
None == <<"None">>

Truthy(v) == v # None /\ v # <<>>

UpperCase == {"A","B","C","D","E","F","G","H","I","J","K","L","M","N","O","P","Q","R","S","T","U","V","W","X","Y","Z"}
LowerCase == {"a","b","c","d","e","f","g","h","i","j","k","l","m","n","o","p","q","r","s","t","u","v","w","x","y","z"}
Digits == {"0","1","2","3","4","5","6","7","8","9"}
Letters == UpperCase \cup LowerCase

\* the three character classes of the email pattern
LocalChars == Letters \cup Digits \cup {".", "_", "%", "+", "-"}
DomainChars == Letters \cup Digits \cup {".", "-"}
TldChars == Letters

RECURSIVE Join(_, _)
\* sep.join(parts)
Join(sep, parts) ==
  IF parts = <<>> THEN <<>>
  ELSE IF Len(parts) = 1 THEN parts[1]
  ELSE parts[1] \o sep \o Join(sep, Tail(parts))

\* all orders in which a set can be iterated
Perms(S) ==
  { f \in [1..Cardinality(S) -> S] : \A a, b \in 1..Cardinality(S) : a # b => f[a] # f[b] }

\* affiliation.startswith(keyword) in place of "keyword in affiliation"
Contains_StartsWith(keyword, s) ==
  Len(keyword) <= Len(s) /\ SubSeq(s, 1, Len(keyword)) = keyword

\* keyword in affiliation
Contains(keyword, s) ==
  \E a \in 1..(Len(s) - Len(keyword) + 1) : SubSeq(s, a, a + Len(keyword) - 1) = keyword

pharma_keywords ==
  << <<"I","n","c">>, <<"L","t","d">>,
     <<"C","o","r","p","o","r","a","t","i","o","n">>,
     <<"P","h","a","r","m","a">>, <<"B","i","o","t","e","c","h">>,
     <<"L","L","C">>, <<"C","o","m","p","a","n","y">> >>

\* any(keyword in affiliation for keyword in pharma_keywords)
AnyKeyword(affiliation) ==
  \E k \in 1..Len(pharma_keywords) : Contains(pharma_keywords[k], affiliation)

\* --------------------------------------------------------- re.findall
RECURSIVE RunLen(_, _, _)
\* length of the longest run of characters of class C starting at s[a]
RunLen(s, a, C) ==
  IF a > Len(s) \/ s[a] \notin C THEN 0 ELSE 1 + RunLen(s, a + 1, C)

Max(S) == CHOOSE m \in S : \A n \in S : n <= m

\* Match of [A-Za-z0-9._%+-]+@[A-Za-z0-9.-]+\.[A-Za-z]{2,} anchored at s[a]:
\* the index one past the match, 0 when there is none.  Every quantifier is
\* greedy; the engine gives back characters longest-first.
MatchAt(s, a) ==
  LET n1 == RunLen(s, a, LocalChars)
      K1 == { k \in 1..n1 : a + k <= Len(s) /\ s[a + k] = "@" }
      DomEnd(b) ==
        LET n2 == RunLen(s, b, DomainChars)
            K2 == { k \in 1..n2 : /\ b + k <= Len(s)
                                  /\ s[b + k] = "."
                                  /\ RunLen(s, b + k + 1, TldChars) >= 2 }
        IN IF K2 = {} THEN 0
           ELSE b + Max(K2) + 1 + RunLen(s, b + Max(K2) + 1, TldChars)
      Ok == { k \in K1 : DomEnd(a + k + 1) # 0 }
  IN IF Ok = {} THEN 0 ELSE DomEnd(a + Max(Ok) + 1)

RECURSIVE FindAllFrom(_, _)
\* leftmost, non-overlapping matches, scanning from s[a]
FindAllFrom(s, a) ==
  IF a > Len(s) THEN <<>>
  ELSE LET e == MatchAt(s, a)
       IN IF e = 0 THEN FindAllFrom(s, a + 1)
          ELSE <<SubSeq(s, a, e - 1)>> \o FindAllFrom(s, e)

\* re.findall(pattern, affiliation)
findall(affiliation) == FindAllFrom(affiliation, 1)

\* ---------------------------------------------------------- XML access
\* elem.text if elem is not None else ""
TextOrEmpty(elems) == IF elems = <<>> THEN <<>> ELSE elems[1]

\* author.findtext(tag): None when the element is missing, "" when it has
\* no text
findtext(elems) ==
  IF elems = <<>> THEN None
  ELSE IF elems[1] = None THEN <<>> ELSE elems[1]

\* f"{forename} {lastname}" if forename and lastname else None
fullname(author) ==
  LET lastname == findtext(author.LastName)
      forename == findtext(author.ForeName)
  IN IF Truthy(forename) /\ Truthy(lastname)
     THEN forename \o <<" ">> \o lastname
     ELSE None

RECURSIVE AuthorNames(_)
\* the authors list after the loop over article.findall(".//Author")
AuthorNames(authors) ==
  IF authors = <<>> THEN <<>>
  ELSE (IF Truthy(fullname(Head(authors))) THEN <<fullname(Head(authors))>> ELSE <<>>)
       \o AuthorNames(Tail(authors))

\* the affiliation read only for an author that got a full name
AddAffiliation_NamedOnly(affiliations, author) ==
  IF /\ Truthy(fullname(author))
     /\ author.Affiliation # <<>>
     /\ Truthy(author.Affiliation[1])
  THEN affiliations \cup {author.Affiliation[1]}
  ELSE affiliations

\* one iteration's update of the affiliations set: the first
\* AffiliationInfo/Affiliation element, kept only when its text is truthy
AddAffiliation(affiliations, author) ==
  IF author.Affiliation # <<>> /\ Truthy(author.Affiliation[1])
  THEN affiliations \cup {author.Affiliation[1]}
  ELSE affiliations

RECURSIVE AffiliationSet(_, _)
\* the affiliations set after the loop, starting from the set given
AffiliationSet(affiliations, authors) ==
  IF authors = <<>> THEN affiliations
  ELSE AffiliationSet(AddAffiliation(affiliations, Head(authors)), Tail(authors))

\* affiliations collected in a list instead of a set
PaperOutcomes_List(article) ==
  LET HasText(author) == author.Affiliation # <<>> /\ Truthy(author.Affiliation[1])
      carriers == SelectSeq(article.Authors, HasText)
  IN { ("PubmedID" :> TextOrEmpty(article.PMID)
        @@ "Title" :> TextOrEmpty(article.ArticleTitle)
        @@ "Publication Date" :> TextOrEmpty(article.Year)
        @@ "Authors" :> AuthorNames(article.Authors)
        @@ "Affiliations" :> [ k \in 1..Len(carriers) |-> carriers[k].Affiliation[1] ]) }

\* the dicts one article can become: list(affiliations) iterates a set of
\* str, whose order depends on the interpreter's per-process hash seed
PaperOutcomes(article) ==
  { ("PubmedID" :> TextOrEmpty(article.PMID)
     @@ "Title" :> TextOrEmpty(article.ArticleTitle)
     @@ "Publication Date" :> TextOrEmpty(article.Year)
     @@ "Authors" :> AuthorNames(article.Authors)
     @@ "Affiliations" :> order)
    : order \in Perms(AffiliationSet({}, article.Authors)) }

RECURSIVE PapersOutcomes(_)
\* the lists of dicts the loop over root.findall(".//PubmedArticle") can build
PapersOutcomes(articles) ==
  IF articles = <<>> THEN {<<>>}
  ELSE { <<p>> \o rest : p \in PaperOutcomes(Head(articles)),
                         rest \in PapersOutcomes(Tail(articles)) }

\* ------------------------------------------------------ classification
RECURSIVE CompanyAffiliations(_)
\* company_affiliations after the first loop over paper["Affiliations"]
CompanyAffiliations(affiliations) ==
  IF affiliations = <<>> THEN <<>>
  ELSE (IF AnyKeyword(Head(affiliations)) THEN <<Head(affiliations)>> ELSE <<>>)
       \o CompanyAffiliations(Tail(affiliations))

RECURSIVE EmailAddresses(_)
\* email_addresses after the second loop over paper["Affiliations"]
EmailAddresses(affiliations) ==
  IF affiliations = <<>> THEN <<>>
  ELSE findall(Head(affiliations)) \o EmailAddresses(Tail(affiliations))

Range(s) == { s[k] : k \in 1..Len(s) }

NA == <<"N","/","A">>

\* ", ".join(email_addresses) without the set
DetectOutcomes_NoDedup(paper) ==
  { ("PubmedID" :> paper["PubmedID"]
     @@ "Title" :> paper["Title"]
     @@ "Publication Date" :> paper["Publication Date"]
     @@ "Non-academic Author(s)" :> NA
     @@ "Company Affiliation(s)" :> Join(<<";", " ">>, CompanyAffiliations(paper["Affiliations"]))
     @@ "Corresponding Author Email" :> Join(<<",", " ">>, EmailAddresses(paper["Affiliations"]))) }

\* the placeholder replaced by the record's author names
DetectOutcomes_AuthorsJoined(paper) ==
  { ("PubmedID" :> paper["PubmedID"]
     @@ "Title" :> paper["Title"]
     @@ "Publication Date" :> paper["Publication Date"]
     @@ "Non-academic Author(s)" :> Join(<<",", " ">>, paper["Authors"])
     @@ "Company Affiliation(s)" :> Join(<<";", " ">>, CompanyAffiliations(paper["Affiliations"]))
     @@ "Corresponding Author Email" :> Join(<<",", " ">>, order))
    : order \in Perms(Range(EmailAddresses(paper["Affiliations"]))) }

\* the dicts detect_non_academic_authors(paper) can return: set(email_addresses)
\* is joined in the set's iteration order
DetectOutcomes(paper) ==
  { ("PubmedID" :> paper["PubmedID"]
     @@ "Title" :> paper["Title"]
     @@ "Publication Date" :> paper["Publication Date"]
     @@ "Non-academic Author(s)" :> NA
     @@ "Company Affiliation(s)" :> Join(<<";", " ">>, CompanyAffiliations(paper["Affiliations"]))
     @@ "Corresponding Author Email" :> Join(<<",", " ">>, order))
    : order \in Perms(Range(EmailAddresses(paper["Affiliations"]))) }

\* ------------------------------------------------------------ CSV export
fieldnames ==
  << "PubmedID", "Title", "Publication Date", "Non-academic Author(s)",
     "Company Affiliation(s)", "Corresponding Author Email" >>

\* csv.DictWriter.writerow(paper): one cell per field name, None written as ""
writerow(paper) ==
  [ j \in 1..Len(fieldnames) |->
      IF paper[fieldnames[j]] = None THEN <<>> ELSE paper[fieldnames[j]] ]

\* export_to_csv(papers, filename): open(filename, "w") truncates the file,
\* then the header and one line per paper are written
export_to_csv(file, papers) ==
  [ opens |-> file.opens + 1,
    header |-> fieldnames,
    rows |-> [ k \in 1..Len(papers) |-> writerow(papers[k]) ] ]

\* ------------------------------------------------------------ the inputs
s_AcmeInc == <<"A","c","m","e"," ","I","n","c"," ","a","@","b",".","i","o">>
s_UniTwice == <<"U","n","i"," ","a","@","b",".","i","o",","," ","a","@","b",".","i","o">>
s_incUni == <<"i","n","c"," ","U","n","i">>
s_XPharma == <<"X","P","h","a","r","m","a"," ","c","@","d",".","e"," ","p",".","q","@","r","-","s",".","c","o",".","u","k",".">>

\* <Author> elements: both names and a company affiliation with an email;
\* no ForeName and an academic affiliation repeating that email; a LastName
\* element without text and a first Affiliation element without text; both
\* names and two affiliations, the first a second company (keyword inside a
\* word, an "@" that starts no address, an address before a full stop); a
\* ForeName without text and no affiliation at all; both names and an
\* affiliation with a lower-case "inc" and no "@"
AuthorPool ==
  { [ForeName |-> <<<<"J">>>>, LastName |-> <<<<"D">>>>, Affiliation |-> <<s_AcmeInc>>],
    [ForeName |-> <<>>, LastName |-> <<<<"D">>>>, Affiliation |-> <<s_UniTwice>>],
    [ForeName |-> <<<<"K">>>>, LastName |-> <<None>>, Affiliation |-> <<None, s_XPharma>>],
    [ForeName |-> <<<<"K">>>>, LastName |-> <<<<"E">>>>, Affiliation |-> <<s_XPharma, s_AcmeInc>>],
    [ForeName |-> <<None>>, LastName |-> <<<<"E">>>>, Affiliation |-> <<>>],
    [ForeName |-> <<<<"J">>>>, LastName |-> <<<<"E">>>>, Affiliation |-> <<s_incUni>>] }

\* <PMID>, <ArticleTitle>, <PubDate><Year> of an article without authors:
\* each one present without text in one header and missing in the other
HeaderPool ==
  { [PMID |-> <<None>>, ArticleTitle |-> <<>>, Year |-> <<None>>],
    [PMID |-> <<>>, ArticleTitle |-> <<None>>, Year |-> <<>>] }

\* the three elements present with text
FullHeader ==
  [PMID |-> <<<<"1">>>>, ArticleTitle |-> <<<<"T">>>>, Year |-> <<<<"2","0","2","2">>>>]

WithAuthors(h, authors) ==
  [PMID |-> h.PMID, ArticleTitle |-> h.ArticleTitle, Year |-> h.Year, Authors |-> authors]

\* <PubmedArticle> elements with k authors: an incomplete header when there
\* is no author, the complete header with every author list otherwise
ArticlesWith(k) ==
  IF k = 0 THEN { WithAuthors(h, <<>>) : h \in HeaderPool }
  ELSE { WithAuthors(FullHeader, a) : a \in [1..k -> AuthorPool] }

RECURSIVE Documents(_, _)
\* the article lists of at most n articles with at most b authors in all
Documents(n, b) ==
  IF n = 0 THEN {<<>>}
  ELSE {<<>>} \cup UNION { { <<art>> \o rest : art \in ArticlesWith(k),
                                             rest \in Documents(n - 1, b - k) }
                          : k \in 0..b }

\* response.content of efetch for n ids: at most one article per id, in a
\* document that is well-formed or not
Payloads(n) ==
  { [wellFormed |-> w, articles |-> a] : w \in BOOLEAN, a \in Documents(n, MaxAuthors) }

IdPool == << <<"1">>, <<"2">>, <<"3">>, <<"4">>, <<"5">> >>

Min(a, b) == IF a < b THEN a ELSE b

\* the idlist of esearch with retmax = 5
IdLists == { SubSeq(IdPool, 1, n) : n \in 0..Min(MaxArticles, retmax) }

NoPayload == [wellFormed |-> TRUE, articles |-> <<>>]
NoFile == [opens |-> 0, header |-> <<>>, rows |-> <<>>]

\* --------------------------------------------------------- state machine
\* pc is the position in main, idx the loop's position in paper_details,
\* detected the loop's last row, csvfile the output file, echoed the messages
\* of typer.echo.  keepOnlyCompanyAffiliated is the option the caller would
\* like to supply: neither main has a parameter for it, so no action reads it.
Init ==
  /\ pc = "fetch_papers"
  /\ paper_ids = <<>>
  /\ payload = NoPayload
  /\ paper_details = <<>>
  /\ idx = 0
  /\ detected = None
  /\ processed_papers = <<>>
  /\ csvfile = NoFile
  /\ echoed = <<>>
  /\ keepOnlyCompanyAffiliated \in BOOLEAN

\* main: paper_ids = fetch_papers(query, debug); an empty list ends the run
FetchPapers ==
  /\ pc = "fetch_papers"
  /\ \E ids \in IdLists :
       /\ paper_ids' = ids
       /\ IF ids = <<>>
          THEN /\ echoed' = Append(echoed, "No papers found for query.")
               /\ pc' = "exit"
          ELSE /\ echoed' = echoed
               /\ pc' = "fetch_paper_details"
  /\ UNCHANGED <<payload, paper_details, idx, detected, processed_papers,
                 csvfile, keepOnlyCompanyAffiliated>>

\* the document parsed with a recovering parser, which never raises
FetchPaperDetails_Recover ==
  /\ pc = "fetch_paper_details"
  /\ \E doc \in Payloads(Len(paper_ids)) :
       /\ payload' = doc
       /\ paper_details' \in PapersOutcomes(doc.articles)
       /\ processed_papers' = <<>>
       /\ idx' = 1
       /\ pc' = "loop"
  /\ UNCHANGED <<paper_ids, detected, csvfile, echoed, keepOnlyCompanyAffiliated>>

\* main: paper_details = fetch_paper_details(paper_ids, debug);
\* processed_papers = [].  etree.fromstring raises XMLSyntaxError on a
\* document that is not well-formed, and nothing catches it
FetchPaperDetails ==
  /\ pc = "fetch_paper_details"
  /\ \E doc \in Payloads(Len(paper_ids)) :
       /\ payload' = doc
       /\ IF ~doc.wellFormed
          THEN /\ pc' = "XMLSyntaxError"
               /\ UNCHANGED <<paper_details, idx, processed_papers>>
          ELSE /\ paper_details' \in PapersOutcomes(doc.articles)
               /\ processed_papers' = <<>>
               /\ idx' = 1
               /\ pc' = "loop"
  /\ UNCHANGED <<paper_ids, detected, csvfile, echoed, keepOnlyCompanyAffiliated>>

\* every classified row appended, whatever its company field
ClassifyPaper_KeepAll ==
  /\ pc = "loop"
  /\ idx <= Len(paper_details)
  /\ \E d \in DetectOutcomes(paper_details[idx]) :
       /\ detected' = d
       /\ processed_papers' = Append(processed_papers, d)
  /\ idx' = idx + 1
  /\ UNCHANGED <<pc, paper_ids, payload, paper_details, csvfile, echoed,
                 keepOnlyCompanyAffiliated>>

\* main: one iteration of "for paper in paper_details".  "keyword in
\* affiliation" and re.findall raise TypeError on an affiliation that is
\* not a str, and nothing catches it
ClassifyPaper ==
  /\ pc = "loop"
  /\ idx <= Len(paper_details)
  /\ IF \E a \in 1..Len(paper_details[idx]["Affiliations"]) :
          paper_details[idx]["Affiliations"][a] = None
     THEN /\ pc' = "TypeError"
          /\ UNCHANGED <<detected, processed_papers, idx>>
     ELSE /\ \E d \in DetectOutcomes(paper_details[idx]) :
               /\ detected' = d
               /\ processed_papers' =
                    IF Truthy(d["Company Affiliation(s)"])
                    THEN Append(processed_papers, d)
                    ELSE processed_papers
          /\ idx' = idx + 1
          /\ pc' = pc
  /\ UNCHANGED <<paper_ids, payload, paper_details, csvfile, echoed,
                 keepOnlyCompanyAffiliated>>

\* main: "if not processed_papers" after the loop
NoCompanyPapers ==
  /\ pc = "loop"
  /\ idx > Len(paper_details)
  /\ processed_papers = <<>>
  /\ echoed' = Append(echoed, "No papers with pharmaceutical/biotech affiliations found.")
  /\ pc' = "exit"
  /\ UNCHANGED <<paper_ids, payload, paper_details, idx, detected,
                 processed_papers, csvfile, keepOnlyCompanyAffiliated>>

\* the export without the "if not processed_papers" exit before it
ExportToCsv_Unguarded ==
  /\ pc = "loop"
  /\ idx > Len(paper_details)
  /\ csvfile' = export_to_csv(csvfile, processed_papers)
  /\ echoed' = Append(echoed, "Results exported to file")
  /\ pc' = "done"
  /\ UNCHANGED <<paper_ids, payload, paper_details, idx, detected,
                 processed_papers, keepOnlyCompanyAffiliated>>

\* main: pubmed.export_to_csv(processed_papers, file) and the final echo
ExportToCsv ==
  /\ pc = "loop"
  /\ idx > Len(paper_details)
  /\ processed_papers # <<>>
  /\ csvfile' = export_to_csv(csvfile, processed_papers)
  /\ echoed' = Append(echoed, "Results exported to file")
  /\ pc' = "done"
  /\ UNCHANGED <<paper_ids, payload, paper_details, idx, detected,
                 processed_papers, keepOnlyCompanyAffiliated>>

Next ==
  \/ FetchPapers
  \/ FetchPaperDetails
  \/ ClassifyPaper
  \/ NoCompanyPapers
  \/ ExportToCsv

Spec == Init /\ [][Next]_vars

\* ================================================================ claims
\* the rows classified so far come from the records paper_details[1..idx-1]
Classified == pc \in {"loop", "done", "exit"} /\ idx > 1

\* the record the last classification read
LastPaper == paper_details[idx - 1]

\* the seven markers of the keyword heuristic, as the specification lists them
Markers ==
  { <<"I","n","c">>, <<"L","t","d">>, <<"C","o","r","p","o","r","a","t","i","o","n">>,
    <<"P","h","a","r","m","a">>, <<"B","i","o","t","e","c","h">>, <<"L","L","C">>,
    <<"C","o","m","p","a","n","y">> }

\* s = before \o marker \o after for some marker
HasMarker(s) ==
  \E m \in Markers : \E a \in 0..Len(s) :
    a + Len(m) <= Len(s) /\ \A j \in 1..Len(m) : s[a + j] = m[j]

\* the record has at least one company affiliation
IsCompanyPaper(paper) == \E a \in 1..Len(paper["Affiliations"]) : HasMarker(paper["Affiliations"][a])

\* the row carries the record's id, title and year and the record's company
\* affiliations
IsRowOf(row, paper) ==
  /\ row["PubmedID"] = paper["PubmedID"]
  /\ row["Title"] = paper["Title"]
  /\ row["Publication Date"] = paper["Publication Date"]
  /\ row["Company Affiliation(s)"] = Join(<<";", " ">>, SelectSeq(paper["Affiliations"], HasMarker))

RECURSIVE FirstSeen(_)
\* the truthy first affiliations of the authors, each at its first occurrence
FirstSeen(authors) ==
  IF authors = <<>> THEN <<>>
  ELSE LET before == FirstSeen(SubSeq(authors, 1, Len(authors) - 1))
           last == authors[Len(authors)]
       IN IF /\ last.Affiliation # <<>>
             /\ Truthy(last.Affiliation[1])
             /\ \A k \in 1..Len(before) : before[k] # last.Affiliation[1]
          THEN Append(before, last.Affiliation[1])
          ELSE before

\* C2: every record lists its affiliations in first-seen order, and the
\* company field of every classified row is the join of the matching ones in
\* that order, so that a payload determines its rows.
C2_FirstSeenOrder ==
  pc \in {"loop", "done", "exit"} /\ paper_ids # <<>> =>
    /\ \A k \in 1..Len(paper_details) :
         paper_details[k]["Affiliations"] = FirstSeen(payload.articles[k].Authors)
    /\ idx > 1 =>
         detected["Company Affiliation(s)"] =
           Join(<<";", " ">>, SelectSeq(FirstSeen(payload.articles[idx - 1].Authors), HasMarker))

\* the text content of an element, "" when the element or its text is absent
ContentOrEmpty(elems) ==
  IF elems = <<>> \/ elems[1] = None THEN <<>> ELSE elems[1]

\* C3: id, title and publicationYear of every record are strings, equal to
\* the element's text content and to "" when that content is absent.
C3_FieldsAreStrings ==
  pc \in {"loop", "done", "exit"} /\ paper_ids # <<>> =>
    \A k \in 1..Len(paper_details) :
      /\ paper_details[k]["PubmedID"] = ContentOrEmpty(payload.articles[k].PMID)
      /\ paper_details[k]["Title"] = ContentOrEmpty(payload.articles[k].ArticleTitle)
      /\ paper_details[k]["Publication Date"] = ContentOrEmpty(payload.articles[k].Year)

\* C4: the affiliations of every record are non-empty strings, pairwise
\* different, and exactly the non-empty first affiliations of the authors of
\* the record's own article.
C4_AffiliationInvariant ==
  pc \in {"loop", "done", "exit"} /\ paper_ids # <<>> =>
    /\ Len(paper_details) = Len(payload.articles)
    /\ \A k \in 1..Len(paper_details) :
         LET affs == paper_details[k]["Affiliations"]
             authors == payload.articles[k].Authors
         IN /\ \A a \in 1..Len(affs) : affs[a] # None /\ Len(affs[a]) > 0
            /\ \A a, b \in 1..Len(affs) : a # b => affs[a] # affs[b]
            /\ \A a \in 1..Len(affs) : \E u \in 1..Len(authors) :
                 /\ authors[u].Affiliation # <<>>
                 /\ authors[u].Affiliation[1] = affs[a]
            /\ \A u \in 1..Len(authors) :
                 (/\ authors[u].Affiliation # <<>>
                  /\ authors[u].Affiliation[1] # None
                  /\ authors[u].Affiliation[1] # <<>>)
                 => \E a \in 1..Len(affs) : affs[a] = authors[u].Affiliation[1]

\* two authors of one article carry the same affiliation
C4_Witness ==
  /\ pc = "loop"
  /\ Len(paper_details) = 1
  /\ Len(payload.articles[1].Authors) = 2
  /\ payload.articles[1].Authors[1].Affiliation # <<>>
  /\ payload.articles[1].Authors[2].Affiliation # <<>>
  /\ payload.articles[1].Authors[1].Affiliation[1] = payload.articles[1].Authors[2].Affiliation[1]
  /\ Len(paper_details[1]["Affiliations"]) = 1

\* C5: the company field of a classified row is the "; "-join of exactly the
\* record's affiliations that contain one of the seven markers, in the
\* record's order.
C5_KeywordHeuristic ==
  Classified =>
    detected["Company Affiliation(s)"] =
      Join(<<";", " ">>, SelectSeq(LastPaper["Affiliations"], HasMarker))

C5_Witness ==
  /\ Classified
  /\ Len(LastPaper["Affiliations"]) = 2
  /\ ~HasMarker(LastPaper["Affiliations"][1])
  /\ HasMarker(LastPaper["Affiliations"][2])
  /\ detected["Company Affiliation(s)"] = LastPaper["Affiliations"][2]

RECURSIVE SplitCommaSpace(_)
\* the pieces of a ", "-joined field ("" has none)
SplitCommaSpace(field) ==
  IF field = <<>> THEN <<>>
  ELSE LET cuts == { a \in 1..(Len(field) - 1) : field[a] = "," /\ field[a + 1] = " " }
       IN IF cuts = {} THEN <<field>>
          ELSE LET a == CHOOSE c \in cuts : \A d \in cuts : c <= d
               IN <<SubSeq(field, 1, a - 1)>> \o SplitCommaSpace(SubSeq(field, a + 2, Len(field)))

\* local part, "@", domain, ".", two or more letters
IsAddress(e) ==
  \E at \in 2..Len(e) : \E dot \in (at + 2)..(Len(e) - 2) :
    /\ e[at] = "@"
    /\ e[dot] = "."
    /\ \A j \in 1..(at - 1) : e[j] \in Letters \cup Digits \cup {".", "_", "%", "+", "-"}
    /\ \A j \in (at + 1)..(dot - 1) : e[j] \in Letters \cup Digits \cup {".", "-"}
    /\ \A j \in (dot + 1)..Len(e) : e[j] \in Letters

\* C6: the email field of a classified row lists every address matched in
\* any affiliation of the record, company or not, each exactly once and
\* each of the email shape, and is empty when no affiliation contains "@".
C6_EmailExtraction ==
  Classified =>
    LET affs == LastPaper["Affiliations"]
        listed == SplitCommaSpace(detected["Corresponding Author Email"])
    IN /\ \A a, b \in 1..Len(listed) : a # b => listed[a] # listed[b]
       /\ \A a \in 1..Len(listed) : IsAddress(listed[a])
       /\ Range(listed) = UNION { Range(findall(affs[a])) : a \in 1..Len(affs) }
       /\ (\A a \in 1..Len(affs) : "@" \notin Range(affs[a]))
            => detected["Corresponding Author Email"] = <<>>

\* one address matched in an academic and in a company affiliation, twice
\* in one of them
C6_Witness ==
  /\ Classified
  /\ Range(LastPaper["Affiliations"]) = {s_AcmeInc, s_UniTwice}
  /\ detected["Corresponding Author Email"] = <<"a","@","b",".","i","o">>

\* the author element carries a non-empty given and a non-empty family name
HasBothNames(author) ==
  /\ author.ForeName # <<>> /\ author.ForeName[1] # None /\ Len(author.ForeName[1]) > 0
  /\ author.LastName # <<>> /\ author.LastName[1] # None /\ Len(author.LastName[1]) > 0

\* C7: authors is "{given} {family}" of exactly the author elements with
\* both names, in encounter order, and an author without a full name still
\* contributes its first affiliation when that is non-empty.
C7_AuthorList ==
  pc \in {"loop", "done", "exit"} /\ paper_ids # <<>> =>
    \A k \in 1..Len(paper_details) :
      LET named == SelectSeq(payload.articles[k].Authors, HasBothNames)
          authors == payload.articles[k].Authors
      IN /\ paper_details[k]["Authors"] =
              [ a \in 1..Len(named) |-> named[a].ForeName[1] \o <<" ">> \o named[a].LastName[1] ]
         /\ \A u \in 1..Len(authors) :
              (/\ ~HasBothNames(authors[u])
               /\ authors[u].Affiliation # <<>>
               /\ authors[u].Affiliation[1] # None
               /\ authors[u].Affiliation[1] # <<>>)
              => authors[u].Affiliation[1] \in Range(paper_details[k]["Affiliations"])

C7_Witness ==
  /\ pc = "loop"
  /\ Len(paper_details) = 1
  /\ Len(payload.articles[1].Authors) = 2
  /\ HasBothNames(payload.articles[1].Authors[1])
  /\ ~HasBothNames(payload.articles[1].Authors[2])
  /\ Len(paper_details[1]["Authors"]) = 1
  /\ Len(paper_details[1]["Affiliations"]) = 2

\* C8: a payload that is not well-formed ends the run in the parse error
\* with no record, no row and no file, and nothing runs afterwards; a
\* well-formed payload never ends in the parse error and gives one record
\* per article.
C8_ParseFailure ==
  /\ pc = "XMLSyntaxError" =>
       /\ ~payload.wellFormed
       /\ paper_details = <<>>
       /\ processed_papers = <<>>
       /\ detected = None
       /\ csvfile = NoFile
       /\ echoed = <<>>
       /\ ~ENABLED Next
  /\ pc \in {"loop", "done"} =>
       /\ payload.wellFormed
       /\ Len(paper_details) = Len(payload.articles)

C8_Witness ==
  /\ pc = "XMLSyntaxError"
  /\ Len(payload.articles) = 2

\* C9: classification of any record is possible, leaves the records as they
\* are and yields a row of exactly the six fields, with the record's id,
\* title and year, "N/A", and empty company and email fields when the
\* record has no affiliation.
C9_ClassifyTotal ==
  [][ pc = "loop" /\ idx <= Len(paper_details) =>
        /\ pc' = "loop"
        /\ idx' = idx + 1
        /\ paper_details' = paper_details
        /\ DOMAIN detected' = Range(fieldnames)
        /\ detected'["PubmedID"] = paper_details[idx]["PubmedID"]
        /\ detected'["Title"] = paper_details[idx]["Title"]
        /\ detected'["Publication Date"] = paper_details[idx]["Publication Date"]
        /\ detected'["Non-academic Author(s)"] = <<"N", "/", "A">>
        /\ paper_details[idx]["Affiliations"] = <<>> =>
             /\ detected'["Company Affiliation(s)"] = <<>>
             /\ detected'["Corresponding Author Email"] = <<>> ]_vars

\* a record without authors, affiliations, id and year has been classified
C9_Witness ==
  /\ Classified
  /\ LastPaper["Authors"] = <<>>
  /\ LastPaper["Affiliations"] = <<>>
  /\ LastPaper["PubmedID"] = <<>>
  /\ detected["Non-academic Author(s)"] = NA

\* C10: details are fetched only for a non-empty id list; the file is opened
\* at most once, after the last record was classified, for at least one row,
\* every row with a company cell; a run that ends without rows leaves one
\* message and no file.
C10_PipelineOrder ==
  /\ pc \in {"fetch_paper_details", "loop", "done", "XMLSyntaxError"} => paper_ids # <<>>
  /\ paper_ids = <<>> => payload = NoPayload /\ paper_details = <<>> /\ idx = 0
  /\ csvfile.opens <= 1
  /\ csvfile.opens = 1 <=> pc = "done"
  /\ pc = "done" =>
       /\ idx = Len(paper_details) + 1
       /\ Len(csvfile.rows) = Len(processed_papers)
       /\ csvfile.rows # <<>>
       /\ \A k \in 1..Len(csvfile.rows) : csvfile.rows[k][5] # <<>>
  /\ pc = "exit" =>
       /\ csvfile = NoFile
       /\ Len(echoed) = 1
       /\ paper_ids = <<>> \/ (idx = Len(paper_details) + 1 /\ processed_papers = <<>>)

C10_Witness ==
  /\ pc = "done"
  /\ Len(paper_details) = 2
  /\ Len(csvfile.rows) = 1

====
